---- MODULE Spec2Model ----
(***************************************************************************)
(* Model of app.py, the "Green H2 Digital Twin" Streamlit script:          *)
(* six sidebar widgets, the physics engine simulate_system and the         *)
(* economics section.  Streamlit re-executes the whole script whenever a   *)
(* widget changes, so every action below is "set one widget, run the       *)
(* script top to bottom".                                                  *)
(*                                                                         *)
(* Numbers.  The script computes in IEEE-754 binary floating point         *)
(* (numpy float64).  The model keeps the format and narrows the            *)
(* significand to Precision bits: a float is                               *)
(*     [k |-> "num", s |-> sign, m |-> significand, e |-> exponent]        *)
(* with value s * m * 2^e, m = 0 or 2^(Precision-1) <= m < 2^Precision,    *)
(* or k = "inf" (signed) or k = "nan".  Every operation rounds to nearest, *)
(* ties to even, and follows the IEEE rules for zero divisors, infinities  *)
(* and NaN, which is what numpy does (it warns and carries on).  The       *)
(* exponent is unbounded: the magnitudes of this program are far from the  *)
(* overflow and underflow thresholds of float64.  Zero is kept unsigned:   *)
(* the only zero divisor of the script is 1.85 * 0 = +0.0 or a product     *)
(* with it, and the sign of a zero quotient is never observed.             *)
(***************************************************************************)
EXTENDS Integers, Sequences, FiniteSets, TLC

\* Width of the significand (float64 has 53).
Precision == 12

\* 2^n for 0 <= n <= 30, and the number of bits of n >= 0.
Pow2Table ==
    <<1, 2, 4, 8, 16, 32, 64, 128, 256, 512, 1024, 2048, 4096, 8192, 16384,
      32768, 65536, 131072, 262144, 524288, 1048576, 2097152, 4194304,
      8388608, 16777216, 33554432, 67108864, 134217728, 268435456,
      536870912, 1073741824>>
Pow2(n) == Pow2Table[n + 1]

\* The least len in lo .. hi with n < 2^len, by bisection.
RECURSIVE BitSearch(_, _, _)
BitSearch(n, lo, hi) ==
    IF lo = hi THEN lo
    ELSE LET mid == (lo + hi) \div 2
         IN IF n < Pow2Table[mid + 1] THEN BitSearch(n, lo, mid)
            ELSE BitSearch(n, mid + 1, hi)
BitLen(n) == IF n = 0 THEN 0 ELSE BitSearch(n, 1, 31)

Abs(n) == IF n < 0 THEN -n ELSE n
Sgn(n) == IF n < 0 THEN -1 ELSE 1

FZero == [k |-> "num", s |-> 1, m |-> 0, e |-> 0]
FNaN  == [k |-> "nan", s |-> 1, m |-> 0, e |-> 0]
FInf(sg) == [k |-> "inf", s |-> sg, m |-> 0, e |-> 0]

IsNaN(a) == a.k = "nan"
IsInf(a) == a.k = "inf"
IsFinite(a) == a.k = "num"
IsZero(a) == a.k = "num" /\ a.m = 0

Pack(sg, m, ex) == [k |-> "num", s |-> sg, m |-> m, e |-> ex]

\* The significand q rounded up into 2^Precision carries into the exponent.
Carry(sg, q, ex) ==
    IF q = Pow2(Precision) THEN Pack(sg, Pow2(Precision - 1), ex + 1)
    ELSE Pack(sg, q, ex)

\* q + r / (2 * half) rounded to an integer, nearest, ties to even; a
\* nonzero tail below r (sticky) breaks a tie upwards.
Nearest(sg, q, r, half, ex, sticky) ==
    Carry(sg,
          IF r > half \/ (r = half /\ (sticky \/ q % 2 = 1)) THEN q + 1 ELSE q,
          ex)

Shift(sg, n, ex, sticky, sh, p) ==
    Nearest(sg, n \div p, n % p, p \div 2, ex + sh, sticky)

RoundBits(sg, n, ex, sticky, len) ==
    IF len <= Precision
    THEN Pack(sg, n * Pow2(Precision - len), ex - (Precision - len))
    ELSE Shift(sg, n, ex, sticky, len - Precision, Pow2(len - Precision))

\* s * n * 2^e (n >= 0, plus a nonzero tail below the last bit of n when
\* sticky) rounded to Precision bits, nearest, ties to even.
Round(sg, n, ex, sticky) ==
    IF n = 0 THEN FZero ELSE RoundBits(sg, n, ex, sticky, BitLen(n))

\* Long division n / d (n, d > 0) carried to Precision + 2 quotient bits:
\* <<quotient, remainder, exponent>>.
DivLimit == Pow2(Precision + 1)
RECURSIVE DivBits(_, _, _, _)
DivBits(q, r, d, ex) ==
    IF q >= DivLimit THEN <<q, r, ex>>
    ELSE DivBits(2 * q + (IF 2 * r >= d THEN 1 ELSE 0),
                 (2 * r) % d, d, ex - 1)

RoundDivBits(sg, t) == Round(sg, t[1], t[3], t[2] # 0)

\* nn / d in one step, for a quotient of at least Precision + 2 bits.
RoundQuot(sg, nn, d, ex) == Round(sg, nn \div d, ex, nn % d # 0)

\* The float nearest to sg * n / d * 2^ex.
Quot(sg, n, d, ex) ==
    IF n = 0 THEN FZero
    ELSE IF n < Pow2(28 - Precision) /\ 2 * n >= d
         THEN RoundQuot(sg, n * Pow2(Precision + 2), d, ex - (Precision + 2))
    ELSE RoundDivBits(sg, DivBits(n \div d, n % d, d, ex))

\* A Python int converted to float.
FromInt(n) == Round(Sgn(n), Abs(n), 0, FALSE)


\* A decimal literal n / d of the source (d a power of ten), as the parser
\* rounds it.
Lit(n, d) == Quot(Sgn(n), Abs(n), d, 0)

FNeg(a) == IF a.k = "nan" \/ IsZero(a) THEN a ELSE [a EXCEPT !.s = -a.s]

FMul(a, b) ==
    IF IsNaN(a) \/ IsNaN(b) THEN FNaN
    ELSE IF IsInf(a) \/ IsInf(b)
         THEN IF IsZero(a) \/ IsZero(b) THEN FNaN ELSE FInf(a.s * b.s)
    ELSE IF a.m = 0 \/ b.m = 0 THEN FZero
    ELSE Round(a.s * b.s, a.m * b.m, a.e + b.e, FALSE)

FDiv(a, b) ==
    IF IsNaN(a) \/ IsNaN(b) THEN FNaN
    ELSE IF IsInf(a) THEN (IF IsInf(b) THEN FNaN ELSE FInf(a.s * b.s))
    ELSE IF IsInf(b) THEN FZero
    ELSE IF b.m = 0 THEN (IF a.m = 0 THEN FNaN ELSE FInf(a.s))
    ELSE IF a.m = 0 THEN FZero
    ELSE Quot(a.s * b.s, a.m, b.m, a.e - b.e)

RoundInt(n, ex) == Round(Sgn(n), Abs(n), ex, FALSE)

\* hi + lo for finite nonzero hi, lo with hi.e >= lo.e: exact when the
\* exponents are close, hi when lo is below a quarter of its last place.
AddAligned(hi, lo) ==
    IF hi.e - lo.e > Precision + 2 THEN hi
    ELSE RoundInt(hi.s * hi.m * Pow2(hi.e - lo.e) + lo.s * lo.m, lo.e)

FAdd(a, b) ==
    IF IsNaN(a) \/ IsNaN(b) THEN FNaN
    ELSE IF IsInf(a) THEN (IF IsInf(b) /\ a.s # b.s THEN FNaN ELSE a)
    ELSE IF IsInf(b) THEN b
    ELSE IF a.m = 0 THEN b
    ELSE IF b.m = 0 THEN a
    ELSE IF a.e >= b.e THEN AddAligned(a, b) ELSE AddAligned(b, a)

FSub(a, b) == FAdd(a, FNeg(b))

\* a < b, a <= b, a = b as IEEE compares them (all false on NaN).
FLt(a, b) ==
    /\ ~IsNaN(a) /\ ~IsNaN(b)
    /\ IF IsInf(a) THEN a.s = -1 /\ ~(IsInf(b) /\ b.s = -1)
       ELSE IF IsInf(b) THEN b.s = 1
       ELSE IF a.m = 0 THEN b.m # 0 /\ b.s = 1
       ELSE IF b.m = 0 THEN a.s = -1
       ELSE IF a.s # b.s THEN a.s = -1
       ELSE IF a.s = 1 THEN a.e < b.e \/ (a.e = b.e /\ a.m < b.m)
       ELSE b.e < a.e \/ (a.e = b.e /\ b.m < a.m)
FEq(a, b) == ~IsNaN(a) /\ ~IsNaN(b) /\ a = b
FLe(a, b) == FLt(a, b) \/ FEq(a, b)


FMax(a, b) == IF IsNaN(a) \/ IsNaN(b) THEN FNaN ELSE IF FLt(a, b) THEN b ELSE a

(***************************************************************************)
(* np.sin and np.log.  The library routines are not part of the script;    *)
(* they are modelled by series evaluated in fixed point with FxOne units   *)
(* to the unit (absolute error of a few units of 1/FxOne), and the result  *)
(* is rounded to a float.                                                  *)
(***************************************************************************)
FxOne == Pow2(14)
\* pi and ln 2 in units of 1/FxOne.
FxPi  == 51472
FxLn2 == 11357

\* n / d rounded to nearest (d > 0).
DivRound(n, d) == Sgn(n) * ((2 * Abs(n) + d) \div (2 * d))

ToFx(a) ==
    LET sh == a.e + 14
    IN IF sh >= 0 THEN a.s * a.m * Pow2(sh)
       ELSE a.s * DivRound(a.m, Pow2(-sh))
FromFx(n) == Round(Sgn(n), Abs(n), -14, FALSE)

\* u - u^3/3! + u^5/5! - ... for 0 <= u <= pi/2; term is the last term
\* added, j the factorial index it ends on.
RECURSIVE SinSeries(_, _, _, _)
SinSeries(acc, term, u2, j) ==
    IF term = 0 THEN acc
    ELSE LET nxt == -DivRound(term * u2, FxOne * (j + 1) * (j + 2))
         IN SinSeries(acc + nxt, nxt, u2, j + 2)

FxSin(t) ==
    LET w  == ((t + FxPi) % (2 * FxPi)) - FxPi       \* into [-pi, pi)
        u  == IF 2 * w > FxPi THEN FxPi - w
              ELSE IF 2 * w < -FxPi THEN -FxPi - w
              ELSE w                                  \* into [-pi/2, pi/2]
        au == Abs(u)
        u2 == DivRound(au * au, FxOne)
    IN Sgn(u) * SinSeries(au, au, u2, 1)

Sin(a) == IF ~IsFinite(a) THEN FNaN ELSE FromFx(FxSin(ToFx(a)))

\* 2 * (z + z^3/3 + z^5/5 + ...), z = (f - 1) / (f + 1), for 1 <= f < 2.
RECURSIVE AtanhSeries(_, _, _, _)
AtanhSeries(acc, pw, z2, j) ==
    IF pw = 0 THEN acc
    ELSE LET nxt == DivRound(pw * z2, FxOne)
         IN AtanhSeries(acc + DivRound(nxt, j + 2), nxt, z2, j + 2)

FxLog1to2(f) ==
    LET z  == DivRound((f - FxOne) * FxOne, f + FxOne)
        z2 == DivRound(z * z, FxOne)
    IN 2 * AtanhSeries(z, z, z2, 1)

\* ln(m * 2^e) = ln(m / 2^(Precision-1)) + (e + Precision - 1) * ln 2.
Log(a) ==
    IF IsNaN(a) THEN FNaN
    ELSE IF IsZero(a) THEN FInf(-1)
    ELSE IF a.s = -1 THEN FNaN
    ELSE IF IsInf(a) THEN a
    ELSE LET f == ToFx([a EXCEPT !.e = 1 - Precision])
         IN FromFx(FxLog1to2(f) + (a.e + Precision - 1) * FxLn2)

(***************************************************************************)
(* The sidebar (app.py lines 10-20).  A slider holds a value between its   *)
(* minimum and maximum; a number_input created without min_value or        *)
(* max_value holds any integer.                                            *)
(***************************************************************************)
TempMin == 20
TempMax == 90
TempDefault == 60
ThickMin == 50
ThickMax == 200
ThickDefault == 125
SolarDefault == 100
StackDefault == 50
PriceMax == 15
PriceDefault == 5
CapexMax == 2500
CapexDefault == 1000

\* The values the model lets the widgets take (electricity price in cents).
MaxCells == 1
TempValues  == {TempMin, TempDefault, TempMax}
ThickValues == {ThickMin, ThickDefault, ThickMax}
SolarValues == {-1, 0, SolarDefault}
StackValues == (0 .. MaxCells) \cup {StackDefault}
PriceValues == {PriceDefault, PriceMax}
CapexValues == {CapexDefault, CapexMax}

(***************************************************************************)
(* The physics engine (app.py lines 23-44).                                *)
(***************************************************************************)
NGrid  == 50
NHours == 96

\* np.linspace(start, stop, num): endpoint=True, so the step is
\* (stop - start) / (num - 1), sample k is k * step + start and the last
\* sample is stop itself.
linspace(start, stop, num) ==
    LET step == FDiv(FSub(stop, start), FromInt(num - 1))
    IN [j \in 1 .. num |->
          IF j = num THEN stop
          ELSE FAdd(FMul(FromInt(j - 1), step), start)]

np_pi == Lit(314159265, 100000000)

i_range == linspace(Lit(1, 100), FromInt(2), NGrid)
hours   == linspace(FZero, FromInt(24), NHours)

Kelvin(T_c) == FAdd(FromInt(T_c), Lit(27315, 100))

\* Mutant of V_rev: the temperature correction added instead of subtracted.
V_rev_rising(T) ==
    FAdd(Lit(1229, 1000), FMul(Lit(9, 10000), FSub(T, Lit(29815, 100))))

V_rev(T) == FSub(Lit(1229, 1000), FMul(Lit(9, 10000), FSub(T, Lit(29815, 100))))

\* np.log(i_range / 1e-3) does not depend on the arguments.
log_i == [j \in 1 .. NGrid |-> Log(FDiv(i_range[j], Lit(1, 1000)))]

eta_act(T) ==
    LET c == FDiv(FMul(Lit(8314, 1000), T),
                  FMul(FMul(Lit(5, 10), FromInt(2)), FromInt(96485)))
    IN [j \in 1 .. NGrid |-> FMul(c, log_i[j])]

\* Mutant of conductivity: the temperature ratio taken in Celsius.
conductivity_celsius(T) ==
    FMul(FSub(FMul(Lit(5139, 1000000),
                   FDiv(FSub(T, Lit(27315, 100)), FromInt(303))),
              Lit(326, 100000)),
         FromInt(10))

conductivity(T) ==
    FMul(FSub(FMul(Lit(5139, 1000000), FDiv(T, FromInt(303))),
              Lit(326, 100000)),
         FromInt(10))

eta_ohm(T, thickness) ==
    LET r == FDiv(thickness, conductivity(T))
    IN [j \in 1 .. NGrid |-> FMul(i_range[j], r)]

v_total(T, thickness) ==
    LET vr == V_rev(T)
        ea == eta_act(T)
        eo == eta_ohm(T, thickness)
    IN [j \in 1 .. NGrid |-> FAdd(FAdd(vr, ea[j]), eo[j])]

\* np.sin(np.pi * (hours - 6) / 12) does not depend on the arguments.
sin_hours ==
    [j \in 1 .. NHours |->
       Sin(FDiv(FMul(np_pi, FSub(hours[j], FromInt(6))), FromInt(12)))]

\* Mutant of solar_profile: the clip at zero left out.
solar_profile_unclipped(solar_kw) ==
    LET s == FromInt(solar_kw)
    IN [j \in 1 .. NHours |-> FMul(s, sin_hours[j])]

solar_profile(solar_kw) ==
    LET s == FromInt(solar_kw)
    IN [j \in 1 .. NHours |-> FMax(FZero, FMul(s, sin_hours[j]))]

v_op == Lit(185, 100)

W_per_kW == FromInt(1000)

\* Mutant of total_current: the per-cell division applied to the voltage
\* only (v_op / cells instead of v_op * cells).
total_current_per_cell_voltage(sun, cells) ==
    LET d == FDiv(v_op, FromInt(cells))
    IN [j \in 1 .. NHours |-> FDiv(FMul(sun[j], W_per_kW), d)]

total_current(sun, cells) ==
    LET d == FMul(v_op, FromInt(cells))
    IN [j \in 1 .. NHours |-> FDiv(FMul(sun[j], W_per_kW), d)]

\* The literals of line 42: 2.016, (2 * 96485), 3600.
MolarMass == Lit(2016, 1000)
TwoF      == FromInt(2 * 96485)
SecPerHr  == FromInt(3600)

h2_grams_hr(current) ==
    [j \in 1 .. NHours |->
       FMul(FDiv(FMul(current[j], MolarMass), TwoF), SecPerHr)]

simulate_system(T_c, thickness, solar_kw, cells) ==
    LET T   == Kelvin(T_c)
        sun == solar_profile(solar_kw)
    IN [i   |-> i_range,
        v   |-> v_total(T, thickness),
        hrs |-> hours,
        sun |-> sun,
        h2  |-> h2_grams_hr(total_current(sun, cells))]

(***************************************************************************)
(* The economics section (app.py lines 69-78).                             *)
(***************************************************************************)
np_diff(xs) == [j \in 1 .. Len(xs) - 1 |-> FSub(xs[j + 1], xs[j])]

\* numpy's add.reduce over a contiguous float array of 8 to 128 elements:
\* eight running sums over the whole blocks of eight, combined pairwise,
\* then the remaining elements one by one.
RECURSIVE BlockSum(_, _, _, _)
BlockSum(a, j, last, acc) ==
    IF j > last THEN acc ELSE BlockSum(a, j + 8, last, FAdd(acc, a[j]))

RECURSIVE TailSum(_, _, _)
TailSum(a, j, acc) ==
    IF j > Len(a) THEN acc ELSE TailSum(a, j + 1, FAdd(acc, a[j]))

np_sum(a) ==
    LET n    == Len(a)
        last == n - (n % 8)
        r    == [c \in 1 .. 8 |-> BlockSum(a, c + 8, last, a[c])]
        res  == FAdd(FAdd(FAdd(r[1], r[2]), FAdd(r[3], r[4])),
                     FAdd(FAdd(r[5], r[6]), FAdd(r[7], r[8])))
    IN TailSum(a, last + 1, res)

FTwo == FromInt(2)

\* np.trapezoid(y, x=x): (d * (y[1:] + y[:-1]) / 2.0).sum()
np_trapezoid(y, xs) ==
    LET d == np_diff(xs)
        n == Len(xs) - 1
        t == [j \in 1 .. n |-> FDiv(FMul(d[j], FAdd(y[j + 1], y[j])), FTwo)]
    IN np_sum(SubSeq(t, 1, n))

\* np.interp(x0, xp, fp) for xp[1] <= x0 < xp[Len(xp)].
RECURSIVE InterpIndex(_, _, _)
InterpIndex(x0, xp, j) ==
    IF j + 1 >= Len(xp) \/ FLt(x0, xp[j + 1]) THEN j
    ELSE InterpIndex(x0, xp, j + 1)

np_interp(x0, xp, fp) ==
    LET j     == InterpIndex(x0, xp, 1)
        slope == FDiv(FSub(fp[j + 1], fp[j]), FSub(xp[j + 1], xp[j]))
    IN FAdd(FMul(slope, FSub(x0, xp[j])), fp[j])

\* The floating-point errors numpy reports (as RuntimeWarning) for a / b.
DivFlags(a, b) ==
    IF IsNaN(a) \/ IsNaN(b) THEN {}
    ELSE IF IsZero(b) THEN (IF IsZero(a) THEN {"invalid"}
                            ELSE IF IsInf(a) THEN {} ELSE {"divide"})
    ELSE IF IsInf(a) /\ IsInf(b) THEN {"invalid"}
    ELSE {}

mem_thickness(um) == FDiv(FromInt(um), FromInt(10000))
elec_price(cents) == Lit(cents, 100)

F1000 == FromInt(1000)
F365  == FromInt(365)
F10   == FromInt(10)
F100  == FromInt(100)
FOne  == FromInt(1)
F1_25 == Lit(125, 100)

\* The numerator and the denominator of line 73.
lcoh_num(opcost, capex) == FAdd(FromInt(capex), FMul(opcost, F10))
lcoh_den(annual) == FMul(annual, F10)

\* The floating-point errors of one run, by line: 41 (division by
\* v_op * cells), 73 (lcoh), 77 (efficiency).
Warnings(sun, d41, num73, den73, at1) ==
    {<<41, f>> : f \in UNION {DivFlags(FMul(sun[j], W_per_kW), d41) : j \in 1 .. NHours}}
    \cup {<<73, f>> : f \in DivFlags(num73, den73)}
    \cup {<<77, f>> : f \in DivFlags(F1_25, at1)}

Results(args, ss, r, daily, annual, opcost, capex, at1) ==
    [args        |-> args,
     i |-> r.i, v |-> r.v, hrs |-> r.hrs, sun |-> r.sun, h2 |-> r.h2,
     daily_h2_kg |-> daily,
     annual_h2   |-> annual,
     lcoh        |-> FDiv(lcoh_num(opcost, capex), lcoh_den(annual)),
     efficiency  |-> FMul(FDiv(F1_25, at1), F100),
     warnings    |-> Warnings(r.sun, FMul(v_op, FromInt(ss)),
                              lcoh_num(opcost, capex), lcoh_den(annual), at1),
     error       |-> "none"]

Metrics(args, ss, r, daily, opcost, capex, at1) ==
    Results(args, ss, r, daily, FMul(daily, F365), opcost, capex, at1)

\* Lines 69-78, given the widgets' values and what simulate_system returned.
Economics(args, sc, ss, cents, cx, r) ==
    Metrics(args, ss, r,
            FDiv(np_trapezoid(r.h2, r.hrs), F1000),
            FMul(FromInt(sc * 2000), elec_price(cents)),
            sc * cx,
            np_interp(FOne, r.i, r.v))

\* Line 47 and what follows it.
Call(t, thick, sc, ss, cents, cx) ==
    Economics(<<t, thick, sc, ss>>, sc, ss, cents, cx,
              simulate_system(t, thick, sc, ss))

\* One execution of the script, top to bottom, with the widgets holding
\* t, um, sc, ss, cents, cx.  No statement of it raises: every division
\* by a value that can be zero has a numpy operand, and numpy warns
\* instead of raising.
Script(t, um, sc, ss, cents, cx) ==
    Call(t, mem_thickness(um), sc, ss, cents, cx)

VARIABLES temp, mem_um, solar_capacity, stack_size, elec_cents, capex_kw, run

vars == <<temp, mem_um, solar_capacity, stack_size, elec_cents, capex_kw, run>>

\* Mutant of Rerun: the solar and hydrogen series kept from the previous run
\* while the solar capacity is unchanged (a cache keyed on one argument).
RerunCached(t, um, sc, ss, cents, cx) ==
    /\ temp' = t /\ mem_um' = um /\ solar_capacity' = sc /\ stack_size' = ss
    /\ elec_cents' = cents /\ capex_kw' = cx
    /\ run' = IF sc = solar_capacity
              THEN [Script(t, um, sc, ss, cents, cx)
                      EXCEPT !.sun = run.sun, !.h2 = run.h2]
              ELSE Script(t, um, sc, ss, cents, cx)

\* Streamlit re-executes the script with the widgets' new values.
Rerun(t, um, sc, ss, cents, cx) ==
    /\ temp' = t /\ mem_um' = um /\ solar_capacity' = sc /\ stack_size' = ss
    /\ elec_cents' = cents /\ capex_kw' = cx
    /\ run' = Script(t, um, sc, ss, cents, cx)

Init ==
    /\ temp = TempDefault /\ mem_um = ThickDefault
    /\ solar_capacity = SolarDefault /\ stack_size = StackDefault
    /\ elec_cents = PriceDefault /\ capex_kw = CapexDefault
    /\ run = Script(TempDefault, ThickDefault, SolarDefault, StackDefault,
                    PriceDefault, CapexDefault)

SetTemp ==
    \E t \in TempValues \ {temp} :
        Rerun(t, mem_um, solar_capacity, stack_size, elec_cents, capex_kw)
SetThickness ==
    \E um \in ThickValues \ {mem_um} :
        Rerun(temp, um, solar_capacity, stack_size, elec_cents, capex_kw)
SetSolar ==
    \E sc \in SolarValues \ {solar_capacity} :
        Rerun(temp, mem_um, sc, stack_size, elec_cents, capex_kw)
SetStack ==
    \E ss \in StackValues \ {stack_size} :
        Rerun(temp, mem_um, solar_capacity, ss, elec_cents, capex_kw)
SetPrice ==
    \E cents \in PriceValues \ {elec_cents} :
        Rerun(temp, mem_um, solar_capacity, stack_size, cents, capex_kw)
SetCapex ==
    \E cx \in CapexValues \ {capex_kw} :
        Rerun(temp, mem_um, solar_capacity, stack_size, elec_cents, cx)

Next == SetTemp \/ SetThickness \/ SetSolar \/ SetStack \/ SetPrice \/ SetCapex
Spec == Init /\ [][Next]_vars

(***************************************************************************)
(* Properties.                                                             *)
(***************************************************************************)
Hrs == 1 .. NHours
Grid == 1 .. NGrid
F6  == FromInt(6)
F12 == FromInt(12)
F18 == FromInt(18)
F24 == FromInt(24)

\* a / 2 with no rounding: the same significand one exponent lower.
Half(a) == IF IsFinite(a) /\ a.m # 0 THEN [a EXCEPT !.e = a.e - 1] ELSE a

\* C1: a run with a cell count of 0 ends in an error and returns no
\* hydrogen-rate sample that is infinite or NaN.
C1_ZeroCellsFailFast ==
    stack_size = 0 =>
        /\ run.error # "none"
        /\ \A j \in Hrs : IsFinite(run.h2[j])

\* C2: simulate_system is only ever called with membrane thickness > 0,
\* solar capacity >= 0 and cell count >= 1, whatever the widgets hold.
C2_CallArgumentsValidated ==
    /\ FLt(FZero, run.args[2])
    /\ run.args[3] >= 0
    /\ run.args[4] >= 1

\* C3: with a solar capacity of 0 (and a valid cell count) the solar and
\* hydrogen profiles are zero at every sample, daily production is 0, and
\* the levelized-cost line performs no division by zero.
C3_ZeroSolarProfiles ==
    (solar_capacity = 0 /\ stack_size >= 1) =>
        /\ \A j \in Hrs : IsZero(run.sun[j]) /\ IsZero(run.h2[j])
        /\ IsZero(run.daily_h2_kg)
C3_ZeroSolarGuarded ==
    (solar_capacity = 0 /\ stack_size >= 1) =>
        /\ C3_ZeroSolarProfiles
        /\ \A f \in {"divide", "invalid"} : <<73, f>> \notin run.warnings

\* C4: the hour grid has 96 samples, the first is 0, consecutive samples
\* are 0.25 h apart and every sample lies in [0, 24).
C4_HalfOpenHourGrid ==
    /\ Len(run.hrs) = 96
    /\ IsZero(run.hrs[1])
    /\ \A j \in Hrs : FLe(FZero, run.hrs[j]) /\ FLt(run.hrs[j], F24)
    /\ \A j \in 1 .. NHours - 1 : FSub(run.hrs[j + 1], run.hrs[j]) = Lit(25, 100)

\* C5: for a valid solar capacity the solar profile is 0 at hours 0, 6, 18
\* and 24, and its maximum over the samples is attained at hour 12 and
\* equals the solar capacity.
C5_SolarBoundaryAndPeak ==
    solar_capacity >= 0 =>
        /\ \A j \in Hrs : run.hrs[j] \in {FZero, F6, F18, F24} => IsZero(run.sun[j])
        /\ \E j \in Hrs :
              /\ run.hrs[j] = F12
              /\ run.sun[j] = FromInt(solar_capacity)
              /\ \A n \in Hrs : FLe(run.sun[n], run.sun[j])

\* C6: with a cell count >= 1, at every sample solar power is >= 0, the
\* hydrogen rate is >= 0, and the hydrogen rate is 0 where solar power is 0.
C6_NonNegativeProfiles ==
    stack_size >= 1 =>
        \A j \in Hrs :
            /\ FLe(FZero, run.sun[j])
            /\ FLe(FZero, run.h2[j])
            /\ IsZero(run.sun[j]) => IsZero(run.h2[j])
C6_Witness ==
    /\ stack_size >= 1
    /\ \E j \in Hrs : IsZero(run.sun[j]) /\ IsZero(run.h2[j])
    /\ \E j \in Hrs : FLt(FZero, run.sun[j]) /\ FLt(FZero, run.h2[j])

\* The reversible voltage and the activation overpotential at every
\* temperature the slider can hold.
V_rev_at   == [T_c \in TempMin .. TempMax |-> V_rev(Kelvin(T_c))]
eta_act_at == [T_c \in TempMin .. TempMax |-> eta_act(Kelvin(T_c))]

\* C7 as stated: at every temperature above the current one the reversible
\* voltage is strictly lower and the activation overpotential is strictly
\* lower at every point of the current-density grid.
C7_BothDecreaseWithTemperature ==
    \A T2 \in (temp + 1) .. TempMax :
        /\ FLt(V_rev_at[T2], V_rev_at[temp])
        /\ \A j \in Grid : FLt(eta_act_at[T2][j], eta_act_at[temp][j])

\* C7 amended: from the current temperature up to the slider's maximum,
\* each further degree strictly lowers the reversible voltage and strictly
\* raises the activation overpotential at every point of the grid (so for
\* any T1 < T2 the reversible voltage is lower and the activation
\* overpotential higher at T2).
C7_VrevFallsEtaActRises ==
    \A T1 \in temp .. (TempMax - 1) :
        /\ FLt(V_rev_at[T1 + 1], V_rev_at[T1])
        /\ \A j \in Grid : FLt(eta_act_at[T1][j], eta_act_at[T1 + 1][j])
C7_Witness ==
    /\ temp = TempMin
    /\ \A j \in Grid :
          /\ FLt(FZero, eta_act_at[temp][j])
          /\ run.v[j] = FAdd(FAdd(V_rev_at[temp], eta_act_at[temp][j]),
                             eta_ohm(Kelvin(temp), mem_thickness(mem_um))[j])

\* C8: with the solar profile held fixed, twice the cell count gives exactly
\* half the current and exactly half the hydrogen rate at every sample.
C8_DoublingCellsHalves ==
    stack_size >= 1 =>
        LET c1 == total_current(run.sun, stack_size)
            c2 == total_current(run.sun, 2 * stack_size)
            g2 == simulate_system(temp, mem_thickness(mem_um), solar_capacity,
                                  2 * stack_size).h2
        IN \A j \in Hrs :
              /\ run.h2[j] = h2_grams_hr(c1)[j]
              /\ c2[j] = Half(c1[j])
              /\ g2[j] = Half(run.h2[j])
C8_Witness ==
    /\ stack_size >= 1
    /\ \E j \in Hrs :
          /\ FLt(FZero, run.h2[j])
          /\ simulate_system(temp, mem_thickness(mem_um), solar_capacity,
                             2 * stack_size).h2[j] # run.h2[j]

\* The polarization curve at every temperature the slider can hold, for the
\* membrane thicknesses of the model.
v_total_at ==
    [T_c \in TempMin .. TempMax |->
       [um \in ThickValues |-> v_total(Kelvin(T_c), mem_thickness(um))]]

\* C9: the current-density grid is strictly increasing, and from the
\* current temperature up to the slider's maximum the membrane
\* conductivity is positive and the total cell voltage (the one returned
\* included) is non-decreasing along the grid.
C9_VoltageMonotone ==
    /\ \A j \in 1 .. NGrid - 1 : FLt(run.i[j], run.i[j + 1])
    /\ \A j \in Grid : run.v[j] = v_total_at[temp][mem_um][j]
    /\ \A T_c \in temp .. TempMax :
          /\ FLt(FZero, conductivity(Kelvin(T_c)))
          /\ \A j \in 1 .. NGrid - 1 :
                FLe(v_total_at[T_c][mem_um][j], v_total_at[T_c][mem_um][j + 1])
C9_Witness ==
    /\ temp = TempMax /\ mem_um = ThickMin
    /\ Len(run.v) = NGrid
    /\ FLt(run.v[1], run.v[NGrid])

\* C10: after any sequence of widget changes the five series on display
\* are those of simulate_system applied to the current four inputs.
C10_OutputsOfCurrentInputs ==
    LET r == simulate_system(temp, mem_thickness(mem_um), solar_capacity, stack_size)
    IN /\ run.i = r.i /\ run.v = r.v /\ run.hrs = r.hrs
       /\ run.sun = r.sun /\ run.h2 = r.h2
C10_Witness ==
    /\ temp # TempDefault /\ mem_um # ThickDefault
    /\ solar_capacity # SolarDefault /\ stack_size # StackDefault
    /\ run.args = <<temp, mem_thickness(mem_um), solar_capacity, stack_size>>
====
